---------------------------- MODULE Spec2Model ----------------------------
(***************************************************************************)
(* A model of the array-job output gatherers                               *)
(*   src/gather_array_job_output.py      (parser: last_value)              *)
(*   src/gather_all_array_job_output.py  (parser: all_values)              *)
(* and of the job script that src/make_parameter_array_job.py writes.      *)
(*                                                                         *)
(* Text is modelled as a sequence of one-character strings, so that the    *)
(* regular expressions, str.strip, str.split, int() and float() of the     *)
(* source are computed character by character.                             *)
(* A Python value is a record [t, v]: t is its type and v a tuple.         *)
(*   None   [t |-> "none",  v |-> <<>>]                                    *)
(*   str    [t |-> "str",   v |-> the characters]                          *)
(*   int    [t |-> "int",   v |-> <<n>>]                                   *)
(*   float  [t |-> "float", v |-> <<m, e>>]   the number m * 10^e, with m  *)
(*          not divisible by 10, and <<0, 0>> for zero (of either sign).   *)
(* A dict is the sequence of its <<key, value>> items in insertion order.  *)
(*                                                                         *)
(* A value the source computes once and uses again is passed here as the   *)
(* argument of a helper operator (named ..._at, ..._of, ..._with) rather   *)
(* than named in a LET, so that it is evaluated once.                      *)
(***************************************************************************)
EXTENDS Integers, Sequences, FiniteSets, TLC

(***************************************************************************)
(* Bounds of the model.                                                    *)
(***************************************************************************)
\* the longest list of output files the glob returns
MaxFiles == 2
\* the most lines of a file made of SampleLines
MaxLines == 3
\* the longest header text made of TokenChars
MaxTokenLen == 5
\* the longest data line made of NumChars
MaxNumLen == 4
\* the longest setting made of ValueChars
MaxValueLen == 3
\* the most words of a data line made of SampleWords
MaxWords == 3
\* the most parameter arrays of a job script
MaxParams == 2
\* the longest parameter array of a job script
MaxArrayLen == 3
\* the largest runs_per_job of a job script
MaxRunsPerJob == 3

(***************************************************************************)
(* Characters and the character classes of Python's re and str.            *)
(***************************************************************************)
Digits == {"0", "1", "2", "3", "4", "5", "6", "7", "8", "9"}

Letters ==
  {"a", "b", "c", "d", "e", "f", "g", "h", "i", "j", "k", "l", "m",
   "n", "o", "p", "q", "r", "s", "t", "u", "v", "w", "x", "y", "z",
   "A", "B", "C", "D", "E", "F", "G", "H", "I", "J", "K", "L", "M",
   "N", "O", "P", "Q", "R", "S", "T", "U", "V", "W", "X", "Y", "Z"}

\* \s and str.strip(): whitespace
IsSpace(c) == c \in {" ", "\t"}

\* \d
IsDigit(c) == c \in Digits

\* \w
IsWord(c) == c \in Letters \cup Digits \cup {"_"}

DigitVal(c) ==
  CASE c = "0" -> 0 [] c = "1" -> 1 [] c = "2" -> 2 [] c = "3" -> 3
    [] c = "4" -> 4 [] c = "5" -> 5 [] c = "6" -> 6 [] c = "7" -> 7
    [] c = "8" -> 8 [] c = "9" -> 9

Max(a, b) == IF a >= b THEN a ELSE b

ToSet(s) == {s[k] : k \in DOMAIN s}

NoDup(s) == \A a, b \in DOMAIN s : s[a] = s[b] => a = b

IsPrefix(s, t) == Len(s) <= Len(t) /\ SubSeq(t, 1, Len(s)) = s

\* s[a .. b-1], the Python slice s[a-1 : b-1] of 1-based positions
Slice(s, a, b) == SubSeq(s, a, b - 1)

(***************************************************************************)
(* Python values.                                                          *)
(***************************************************************************)
None == [t |-> "none", v |-> <<>>]

StrV(s) == [t |-> "str", v |-> s]

IntV(n) == [t |-> "int", v |-> <<n>>]

RECURSIVE Pow10(_)
Pow10(k) == IF k = 0 THEN 1 ELSE 10 * Pow10(k - 1)

RECURSIVE DecNorm(_, _)
\* the normal form of m * 10^e
DecNorm(m, e) ==
  IF m = 0 THEN <<0, 0>>
  ELSE IF m % 10 = 0 THEN DecNorm(m \div 10, e + 1)
  ELSE <<m, e>>

FloatV(m, e) == [t |-> "float", v |-> DecNorm(m, e)]

\* bool(x) of a str, an int, a float or None
Truthy(x) ==
  CASE x.t = "none"  -> FALSE
    [] x.t = "str"   -> x.v # <<>>
    [] x.t = "int"   -> x.v[1] # 0
    [] x.t = "float" -> x.v[1] # 0

(***************************************************************************)
(* str.strip() and str.split().                                            *)
(***************************************************************************)
RECURSIVE LStrip(_)
LStrip(s) ==
  IF s # <<>> /\ IsSpace(Head(s)) THEN LStrip(Tail(s)) ELSE s

RECURSIVE RStrip(_)
RStrip(s) ==
  IF s # <<>> /\ IsSpace(s[Len(s)])
  THEN RStrip(SubSeq(s, 1, Len(s) - 1)) ELSE s

Strip(s) == RStrip(LStrip(s))

RECURSIVE RunEnd(_, _, _)
\* the position after the longest run of characters of s, from position j,
\* that are in class cls ("d": \d, "S": \S, "n": [^\s=])
RunEnd(s, j, cls) ==
  IF j > Len(s) THEN j
  ELSE LET c  == s[j]
           member == CASE cls = "d" -> IsDigit(c)
                       [] cls = "S" -> ~IsSpace(c)
                       [] cls = "n" -> ~IsSpace(c) /\ c # "="
       IN IF member THEN RunEnd(s, j + 1, cls) ELSE j

RECURSIVE Split(_)
\* the words of t, which starts with none or with a word that ends before
\* position e
Split_at(t, e) ==
  IF t = <<>> THEN <<>>
  ELSE <<Slice(t, 1, e)>> \o Split(Slice(t, e, Len(t) + 1))

Split_of(t) == Split_at(t, RunEnd(t, 1, "S"))

\* str.split(): the maximal runs of non-whitespace characters
Split(s) == Split_of(LStrip(s))

(***************************************************************************)
(* int() and float() of a str.                                             *)
(***************************************************************************)
RECURSIVE DigitsVal(_, _)
\* the number written by the digits ds, after the digits already read as acc
DigitsVal(ds, acc) ==
  IF ds = <<>> THEN acc
  ELSE DigitsVal(Tail(ds), 10 * acc + DigitVal(Head(ds)))

IsSign(c) == c \in {"-", "+"}

\* the position after the optional sign that s starts with
AfterSign(s) == IF s # <<>> /\ IsSign(s[1]) THEN 2 ELSE 1

IsIntText_of(s) ==
  AfterSign(s) <= Len(s) /\ RunEnd(s, AfterSign(s), "d") = Len(s) + 1

\* int(text) succeeds: whitespace around an optional sign and one or more
\* digits
IsIntText(text) == IsIntText_of(Strip(text))

IntOf_of(s) ==
  (IF s[1] = "-" THEN 0 - 1 ELSE 1)
    * DigitsVal(Slice(s, AfterSign(s), Len(s) + 1), 0)

IntOf(text) == IntOf_of(Strip(text))

\* A decimal literal at position j of s: digits [. digits] | . digits, then
\* an optional exponent. d1 is the position after the first digits, dot
\* whether a "." is there, d2 the position after the digits that follow
\* it, hasE whether an "e" is there, sg whether a sign follows it, x1 the
\* position of the exponent's digits and x2 the position after them.
\* end is the position after the literal, 0 when there is none at j; the
\* literal is mant * 10^exp. (An "e" that no exponent follows is not part
\* of the literal.)
DecimalAt_x2(s, j, d1, dot, d2, hasE, sg, x1, x2) ==
  [end  |-> IF ~(d1 > j \/ (dot /\ d2 > d1 + 1)) THEN 0
            ELSE IF hasE /\ x2 > x1 THEN x2 ELSE d2,
   mant |-> DigitsVal(Slice(s, j, d1)
                        \o (IF dot THEN Slice(s, d1 + 1, d2) ELSE <<>>), 0),
   exp  |-> (IF hasE /\ x2 > x1
             THEN (IF sg /\ s[d2 + 1] = "-" THEN 0 - 1 ELSE 1)
                    * DigitsVal(Slice(s, x1, x2), 0)
             ELSE 0)
              - (IF dot THEN d2 - (d1 + 1) ELSE 0)]

DecimalAt_x1(s, j, d1, dot, d2, hasE, sg, x1) ==
  DecimalAt_x2(s, j, d1, dot, d2, hasE, sg, x1,
               IF hasE THEN RunEnd(s, x1, "d") ELSE x1)

DecimalAt_sg(s, j, d1, dot, d2, hasE, sg) ==
  DecimalAt_x1(s, j, d1, dot, d2, hasE, sg, IF sg THEN d2 + 2 ELSE d2 + 1)

DecimalAt_e(s, j, d1, dot, d2, hasE) ==
  DecimalAt_sg(s, j, d1, dot, d2, hasE,
               hasE /\ d2 + 1 <= Len(s) /\ IsSign(s[d2 + 1]))

DecimalAt_d2(s, j, d1, dot, d2) ==
  DecimalAt_e(s, j, d1, dot, d2, d2 <= Len(s) /\ s[d2] \in {"e", "E"})

DecimalAt_dot(s, j, d1, dot) ==
  DecimalAt_d2(s, j, d1, dot, IF dot THEN RunEnd(s, d1 + 1, "d") ELSE d1)

DecimalAt_d1(s, j, d1) ==
  DecimalAt_dot(s, j, d1, d1 <= Len(s) /\ s[d1] = ".")

DecimalAt(s, j) == DecimalAt_d1(s, j, RunEnd(s, j, "d"))

IsFloatText_of(s) ==
  AfterSign(s) <= Len(s) /\ DecimalAt(s, AfterSign(s)).end = Len(s) + 1

\* float(text) succeeds: whitespace around an optional sign and a decimal
\* literal. ("inf", "nan" and digit-group underscores are not written with
\* the characters of the model's inputs.)
IsFloatText(text) == IsFloatText_of(Strip(text))

FloatOf_with(neg, d) == FloatV(IF neg THEN 0 - d.mant ELSE d.mant, d.exp)

FloatOf_of(s) == FloatOf_with(s[1] = "-", DecimalAt(s, AfterSign(s)))

FloatOf(text) == FloatOf_of(Strip(text))

(***************************************************************************)
(* Dicts, as sequences of <<key, value>> items in insertion order.         *)
(***************************************************************************)
Keys(d) == [k \in DOMAIN d |-> d[k][1]]

HasKey(d, key) == \E k \in DOMAIN d : d[k][1] = key

\* d[key], for a key of d
Get(d, key) == d[CHOOSE k \in DOMAIN d : d[k][1] = key][2]

\* d[key] = val: a new key is added last, an old one keeps its place
DictSet(d, key, val) ==
  IF HasKey(d, key)
  THEN [k \in DOMAIN d |-> IF d[k][1] = key THEN <<key, val>> ELSE d[k]]
  ELSE Append(d, <<key, val>>)

RECURSIVE DictUpdate(_, _)
\* {**d, **e}
DictUpdate(d, e) ==
  IF e = <<>> THEN d
  ELSE DictUpdate(DictSet(d, e[1][1], e[1][2]), Tail(e))

(***************************************************************************)
(* The regular expressions and their findall.                              *)
(***************************************************************************)
\* float_regex.match(s, i): the position after the match that starts at
\* position i, 0 when there is none. After the optional sign the pattern is
\* the decimal literal of DecimalAt: (\d*\.\d+ | \d+\.?) ([Ee][+-]?\d+)?
float_regex(s, i) == DecimalAt(s, IF IsSign(s[i]) THEN i + 1 ELSE i).end

RECURSIVE float_regex_findall(_, _)
\* the matches from position i on, where e = float_regex(s, i)
float_regex_findall_at(s, i, e) ==
  IF e = 0 THEN float_regex_findall(s, i + 1)
  ELSE <<Slice(s, i, e)>> \o float_regex_findall(s, e)

\* float_regex.findall(s), from position i on: the matched texts
float_regex_findall(s, i) ==
  IF i > Len(s) THEN <<>>
  ELSE float_regex_findall_at(s, i, float_regex(s, i))

\* k is the position after the name that starts at i + 2, and e the
\* position after the setting that starts at k + 1
param_regex_at(s, i, k, e) ==
  IF /\ s[i] = "-" /\ s[i + 1] = "-" /\ IsWord(s[i + 2])
     /\ k <= Len(s) /\ s[k] = "="
     /\ e > k + 1
  THEN [end |-> e, param |-> Slice(s, i + 2, k),
        setting |-> Slice(s, k + 1, e)]
  ELSE [end |-> 0, param |-> <<>>, setting |-> <<>>]

param_regex_name(s, i, k) == param_regex_at(s, i, k, RunEnd(s, k + 1, "S"))

\* param_regex.match(s, i), for --(\w[^\s=]*)=(\S+): the groups and the
\* position after the match, end = 0 when there is none
param_regex(s, i) ==
  IF i + 2 <= Len(s) THEN param_regex_name(s, i, RunEnd(s, i + 3, "n"))
  ELSE [end |-> 0, param |-> <<>>, setting |-> <<>>]

RECURSIVE param_regex_findall(_, _)
\* the matches from position i on, where m = param_regex(s, i)
param_regex_findall_at(s, i, m) ==
  IF m.end = 0 THEN param_regex_findall(s, i + 1)
  ELSE <<<<m.param, m.setting>>>> \o param_regex_findall(s, m.end)

\* param_regex.findall(s), from position i on: the <<param, setting>> pairs
param_regex_findall(s, i) ==
  IF i > Len(s) THEN <<>>
  ELSE param_regex_findall_at(s, i, param_regex(s, i))

(***************************************************************************)
(* file_data: one output file, given as the lines readlines() returns.     *)
(***************************************************************************)
\* the conversion of a header setting: int, else float, else the str
ConvertSetting(setting) ==
  IF IsIntText(setting) THEN IntV(IntOf(setting))
  ELSE IF IsFloatText(setting) THEN FloatOf(setting)
  ELSE StrV(setting)

RECURSIVE StoreParams(_, _)
\* the loop over the matches of one header line; failed when a match has
\* an empty name or an empty setting
StoreParams(matches, params) ==
  IF matches = <<>> THEN [failed |-> FALSE, params |-> params]
  ELSE IF matches[1][1] = <<>> \/ matches[1][2] = <<>>
  THEN [failed |-> TRUE, params |-> params]
  ELSE StoreParams(Tail(matches),
         DictSet(params, matches[1][1], ConvertSetting(matches[1][2])))

RECURSIVE HeaderScan(_, _, _, _)
\* after the parameters of header line k: st is what StoreParams returned
HeaderScan_stored(lines, k, command, params, st) ==
  IF st.failed
  THEN [failed |-> TRUE, command |-> command, params |-> params]
  ELSE HeaderScan(lines, k + 1, command, st.params)

\* the loop over the lines, from line k on
HeaderScan(lines, k, command, params) ==
  IF k > Len(lines)
  THEN [failed |-> FALSE, command |-> command, params |-> params]
  ELSE IF lines[k] = <<>>
  THEN HeaderScan(lines, k + 1, command, params)
  ELSE IF lines[k][1] # "#"
  THEN [failed |-> FALSE, command |-> command, params |-> params]
  ELSE IF ~Truthy(command)
  THEN HeaderScan(lines, k + 1, StrV(Strip(Tail(lines[k]))), params)
  ELSE HeaderScan_stored(lines, k, command, params,
         StoreParams(param_regex_findall(lines[k], 1), params))

\* [line for line in lines if line[0] != "#"]
NonCommentLines(lines) == SelectSeq(lines, LAMBDA l : l[1] # "#")

\* what file_data returns: kind is "ok" (an OutputFileRawData), "none"
\* (the parsing error) or "raise" (an exception leaves file_data)
FileData(kind, cmd, params, data_lines) ==
  [kind |-> kind, command |-> cmd, params |-> params,
   data_lines |-> data_lines]

\* the end of file_data, after the loop over lines ended as h: line[0] of
\* an empty line is an IndexError
file_data_of(lines, h) ==
  IF h.failed THEN FileData("none", None, <<>>, <<>>)
  ELSE IF \E k \in DOMAIN lines : lines[k] = <<>>
  THEN FileData("raise", None, <<>>, <<>>)
  ELSE FileData("ok", h.command, h.params, NonCommentLines(lines))

file_data_lines(lines) ==
  file_data_of(lines, HeaderScan(lines, 1, None, <<>>))

RECURSIVE StripAll(_)
\* [line.strip() for line in lines]
StripAll(lines) ==
  IF lines = <<>> THEN <<>>
  ELSE <<Strip(lines[1])>> \o StripAll(Tail(lines))

\* file_data(file_path), of a file that holds raw_lines
file_data(raw_lines) == file_data_lines(StripAll(raw_lines))

(***************************************************************************)
(* The parsers of data lines: last_value and all_values.                   *)
(***************************************************************************)
\* Column name given to values extracted from output
VALUE_NAME ==
  <<"E", "x", "p", "l", "o", "i", "t", "a", "b", "i", "l", "i", "t", "y">>

RECURSIVE LastMatch(_, _)
\* line k, which is not skipped, had these matches
LastMatch_of(data_lines, k, matches) ==
  IF matches # <<>> THEN FloatOf(matches[Len(matches)])
  ELSE LastMatch(data_lines, k - 1)

\* line k, stripped, is line
LastMatch_line(data_lines, k, line) ==
  IF line = <<>> \/ line[1] = "#" THEN LastMatch(data_lines, k - 1)
  ELSE LastMatch_of(data_lines, k, float_regex_findall(line, 1))

\* the loop over reversed(data_lines), from line k down: the value it ends
\* with, None when no line has a match
LastMatch(data_lines, k) ==
  IF k = 0 THEN None
  ELSE LastMatch_line(data_lines, k, Strip(data_lines[k]))

\* if not value: return []; return [{value_name : value}]
last_value_of(value) ==
  IF ~Truthy(value) THEN <<>> ELSE << <<<<VALUE_NAME, value>>>> >>

\* last_value(data_lines): a list of dicts
last_value(data_lines) ==
  last_value_of(LastMatch(data_lines, Len(data_lines)))

Quotes == {"'", "\""}

parse_value(value_str) ==
  IF /\ Len(value_str) >= 2
     /\ value_str[1] \in Quotes
     /\ value_str[1] = value_str[Len(value_str)]
  THEN StrV(Slice(value_str, 2, Len(value_str)))
  ELSE IF IsIntText(value_str) THEN IntV(IntOf(value_str))
  ELSE IF IsFloatText(value_str) THEN FloatOf(value_str)
  ELSE StrV(value_str)

\* the positions of "=" in a word
EqPositions(word) == {k \in DOMAIN word : word[k] = "="}

RECURSIVE LineRecord(_, _, _)
\* word i has "=" at the positions eqs
LineRecord_at(words, i, record, eqs) ==
  IF eqs = {}
  THEN IF i = Len(words) THEN record
       ELSE LineRecord(words, i + 2,
              DictSet(record, words[i], parse_value(words[i + 1])))
  ELSE IF Cardinality(eqs) = 1
  THEN LineRecord(words, i + 1,
         DictSet(record,
                 Slice(words[i], 1, CHOOSE k \in eqs : TRUE),
                 parse_value(Slice(words[i], (CHOOSE k \in eqs : TRUE) + 1,
                                   Len(words[i]) + 1))))
  ELSE LineRecord(words, i + 1, record)

\* the while loop over the words of one line, from word i on
LineRecord(words, i, record) ==
  IF i > Len(words) THEN record
  ELSE LineRecord_at(words, i, record, EqPositions(words[i]))

RECURSIVE all_values_from(_, _)
\* data.append(record), without the test of record
all_values_record_always(data_lines, k, record) ==
  <<record>> \o all_values_from(data_lines, k + 1)

\* line k gave this record
all_values_record(data_lines, k, record) ==
  (IF record # <<>> THEN <<record>> ELSE <<>>)
    \o all_values_from(data_lines, k + 1)

\* line k, stripped, is line
all_values_line(data_lines, k, line) ==
  IF line = <<>> \/ line[1] = "#" THEN all_values_from(data_lines, k + 1)
  ELSE all_values_record(data_lines, k, LineRecord(Split(line), 1, <<>>))

\* the loop of all_values over the data lines, from line k on
all_values_from(data_lines, k) ==
  IF k > Len(data_lines) THEN <<>>
  ELSE all_values_line(data_lines, k, Strip(data_lines[k]))

all_values(data_lines) == all_values_from(data_lines, 1)

(***************************************************************************)
(* The order of values: <, as sorted() uses it on the records' keys.       *)
(***************************************************************************)
\* the printable ASCII characters, from code 32 on (the backslash and the
\* backtick, which no input of the model holds, by their names)
Ascii ==
  <<
    " ", "!", "\"", "#", "$", "%", "&", "'", "(", ")", "*", "+",
    ",", "-", ".", "/", "0", "1", "2", "3", "4", "5", "6", "7",
    "8", "9", ":", ";", "<", "=", ">", "?", "@", "A", "B", "C",
    "D", "E", "F", "G", "H", "I", "J", "K", "L", "M", "N", "O",
    "P", "Q", "R", "S", "T", "U", "V", "W", "X", "Y", "Z", "[",
    "backslash", "]", "^", "_", "backtick", "a", "b", "c", "d", "e", "f", "g",
    "h", "i", "j", "k", "l", "m", "n", "o", "p", "q", "r", "s",
    "t", "u", "v", "w", "x", "y", "z", "{", "|", "}", "~"
  >>

\* ord(c)
Ord(c) == 31 + CHOOSE k \in DOMAIN Ascii : Ascii[k] = c

RECURSIVE StrLess(_, _)
\* a < b of two str
StrLess(a, b) ==
  IF b = <<>> THEN FALSE
  ELSE IF a = <<>> THEN TRUE
  ELSE IF a[1] = b[1] THEN StrLess(Tail(a), Tail(b))
  ELSE Ord(a[1]) < Ord(b[1])

IsNumber(x) == x.t \in {"int", "float"}

\* the number x as <<m, e>>, m * 10^e
Dec(x) == IF x.t = "int" THEN <<x.v[1], 0>> ELSE x.v

\* a < b of two numbers (int or float)
NumLess(a, b) ==
  LET x == Dec(a)
      y == Dec(b)
      e == IF x[2] < y[2] THEN x[2] ELSE y[2]
  IN x[1] * Pow10(x[2] - e) < y[1] * Pow10(y[2] - e)

\* a == b: an int equals the float of the same value
ValEq(a, b) ==
  IF IsNumber(a) /\ IsNumber(b) THEN ~NumLess(a, b) /\ ~NumLess(b, a)
  ELSE a = b

\* a < b is defined: between two numbers or two str (else a TypeError)
Comparable(a, b) == (IsNumber(a) /\ IsNumber(b)) \/ (a.t = "str" /\ b.t = "str")

ValLess(a, b) == IF IsNumber(a) THEN NumLess(a, b) ELSE StrLess(a.v, b.v)

\* the positions where the tuples ka and kb differ by ==
Diffs(ka, kb) == {k \in DOMAIN ka : ~ValEq(ka[k], kb[k])}

Least(ds) == IF ds = {} THEN 0 ELSE CHOOSE k \in ds : \A j \in ds : k <= j

\* the first position where the tuples ka and kb differ, 0 when none
FirstDiff(ka, kb) == Least(Diffs(ka, kb))

KeyTypeError_at(ka, kb, k) == k # 0 /\ ~Comparable(ka[k], kb[k])

\* ka < kb of two key tuples raises TypeError
KeyTypeError(ka, kb) == KeyTypeError_at(ka, kb, FirstDiff(ka, kb))

KeyLess_at(ka, kb, k) == k # 0 /\ ValLess(ka[k], kb[k])

\* ka < kb
KeyLess(ka, kb) == KeyLess_at(ka, kb, FirstDiff(ka, kb))

\* operator.itemgetter(*columns)(record)
KeyOf(record, columns) == [k \in DOMAIN columns |-> Get(record, columns[k])]

RECURSIVE InsertSorted(_, _, _)
\* rec, of key columns cols, put in the sorted list after every record
\* that is not greater: the sort is stable
InsertSorted(sorted, rec, cols) ==
  IF sorted = <<>> THEN <<rec>>
  ELSE IF KeyLess(KeyOf(rec, cols), KeyOf(sorted[1], cols))
  THEN <<rec>> \o sorted
  ELSE <<sorted[1]>> \o InsertSorted(Tail(sorted), rec, cols)

RECURSIVE SortRecords(_, _, _)
\* the first k records, sorted
SortRecords(recs, k, cols) ==
  IF k = 0 THEN <<>>
  ELSE InsertSorted(SortRecords(recs, k - 1, cols), recs[k], cols)

\* sorted(data.records, key=operator.itemgetter(*columns)). A comparison
\* sort of keys ordered by < ends in the one stable order, and it cannot
\* end without comparing, at their first differing column, two keys that
\* differ there in kind (str and number): it raises TypeError exactly when
\* two keys are not comparable.
sorted_records(recs, columns) ==
  IF columns = <<>>
    THEN [exc |-> "TypeError", records |-> <<>>]   \* itemgetter()
  ELSE IF \E k \in DOMAIN recs, c \in DOMAIN columns :
            ~HasKey(recs[k], columns[c])
    THEN [exc |-> "KeyError", records |-> <<>>]
  ELSE IF \E a, b \in DOMAIN recs :
            KeyTypeError(KeyOf(recs[a], columns), KeyOf(recs[b], columns))
    THEN [exc |-> "TypeError", records |-> <<>>]
  ELSE [exc |-> "", records |-> SortRecords(recs, Len(recs), columns)]

(***************************************************************************)
(* The output files of the model's runs: each is the list of its lines.    *)
(***************************************************************************)
\* command c, parameter a, a labelled value b:  # c | #--a=1 | b 2
F_ab ==
  <<<<"#", " ", "c">>,
    <<"#", "-", "-", "a", "=", "1">>,
    <<"b", " ", "2">>>>

\* parameter b, and a value named as F_ab's parameter:  # c | #--b=2 | a 3
F_ba ==
  <<<<"#", " ", "c">>,
    <<"#", "-", "-", "b", "=", "2">>,
    <<"a", " ", "3">>>>

\* another command; b is a parameter and a value:  # d | #--a=2 --b=1 | b 1
F_d ==
  <<<<"#", " ", "d">>,
    <<"#", "-", "-", "a", "=", "2", " ", "-", "-", "b", "=", "1">>,
    <<"b", " ", "1">>>>

\* no header and no value:  x
F_bare ==
  <<<<"x">>>>

\* a parameter and no value:  # c | #--a=1 | x
F_nodata ==
  <<<<"#", " ", "c">>,
    <<"#", "-", "-", "a", "=", "1">>,
    <<"x">>>>

\* a blank line:  # c |  | b 2
F_blank ==
  <<<<"#", " ", "c">>,
    <<>>,
    <<"b", " ", "2">>>>

\* a parameter token with no value:  # c | #--a= | b 2
F_noval ==
  <<<<"#", " ", "c">>,
    <<"#", "-", "-", "a", "=">>,
    <<"b", " ", "2">>>>

\* a parameter named as last_value's column:  # c | #--Exploitability=1 | b 2
F_expl ==
  <<<<"#", " ", "c">>,
    <<"#", "-", "-", "E", "x", "p", "l", "o", "i", "t", "a", "b", "i", "l", "i", "t", "y", "=", "1">>,
    <<"b", " ", "2">>>>

\* a str setting of parameter a:  # c | #--a=x | b 2
F_str ==
  <<<<"#", " ", "c">>,
    <<"#", "-", "-", "a", "=", "x">>,
    <<"b", " ", "2">>>>

\* a value and no parameter:  # c | b 2
F_noparam ==
  <<<<"#", " ", "c">>,
    <<"b", " ", "2">>>>

\* F_ab with its parameter written as a float:  # c | #--a=1.0 | b 2
F_float ==
  <<<<"#", " ", "c">>,
    <<"#", "-", "-", "a", "=", "1", ".", "0">>,
    <<"b", " ", "2">>>>

SweepFiles ==
  {F_ab, F_ba, F_d, F_bare, F_nodata,
   F_blank, F_noval, F_expl, F_str, F_noparam, F_float}

\* the lists of files that output_dir.glob() can return
FileLists == UNION {[1..n -> SweepFiles] : n \in 0..MaxFiles}

(***************************************************************************)
(* The state: the run of one gatherer script, and the data directory.      *)
(***************************************************************************)
VARIABLES
  pc,               \* where the script is
  parser,           \* the script's parser: "last_value" or "all_values"
  datadir,          \* the data directory: is it one, and its files
  files,            \* the list output_files() returned
  job_name,         \* the job name output_files() returned
  i,                \* output_data: the number of files processed
  command,          \* output_data: command, then data.command
  parameter_names,  \* output_data: the list data.parameter_names is
  value_names,      \* output_data: the list data.value_names is
  records,          \* output_data: the list data.records is
  data_path,        \* main: the path it writes to
  ret,              \* what main returned: "-1" or "None" ("" before)
  exc,              \* the exception that left main ("" when none)
  exit_status,      \* the exit status of the process (-1 while it runs)
  stderr,           \* the warnings and diagnostics printed, in order
  stdout,           \* the notices printed, in order
  in_lines,         \* the lines given to a function applied on its own
  u_pc,             \* which function was applied to in_lines
  u_out,            \* what it returned
  array_lengths,    \* the job script: the length of each parameter array
  runs_per_job,     \* the job script: FLAGS.runs_per_job
  j_pc,             \* the job script: "off", "loop" (a task runs), "done"
  task_id,          \* the job script: SLURM_ARRAY_TASK_ID of the task
  loop_run,         \* the job script: the variable run of the for loop
  executed          \* the job script: the runs executed so far

vars ==
  <<pc, parser, datadir, files, job_name, i, command, parameter_names,
    value_names, records, data_path, ret, exc, exit_status, stderr, stdout,
    in_lines, u_pc, u_out,
    array_lengths, runs_per_job, j_pc, task_id, loop_run, executed>>

\* the locals of output_data
dataset == <<i, command, parameter_names, value_names, records>>

\* the function applied on its own
unit == <<in_lines, u_pc, u_out>>

\* the run of a generated job script
job == <<array_lengths, runs_per_job, j_pc, task_id, loop_run, executed>>

\* no job script runs
NoJob ==
  /\ array_lengths = <<>>
  /\ runs_per_job = 1
  /\ j_pc = "off"
  /\ task_id = 1
  /\ loop_run = 0
  /\ executed = {}

\* the two paths of the data directory main can write to:
\* datadir / job_name and datadir / "{job_name}-{jobid}"
Paths == {"job_name", "job_name-jobid"}

NoFile == [kind |-> "absent", text |-> <<>>]

\* a file that was there before the run
OldFile == [kind |-> "old", text |-> <<>>]

\* a file the run opened for writing, and the lines printed to it
Written(text) == [kind |-> "written", text |-> text]

DataDirs ==
  {[is_dir |-> FALSE, files |-> [p \in Paths |-> NoFile]]}
    \cup {[is_dir |-> TRUE, files |-> f] : f \in [Paths -> {NoFile, OldFile}]}

(***************************************************************************)
(* output_files: the job name, from the name of the first file.            *)
(***************************************************************************)
\* the text before "-{jobid}-r*.out" in the name of a file the glob matched
NamePrefixes == {<<>>, <<"j", "o", "b">>}

\* re.search("(.+)-" + jobid, files[0].name), for a name with the text
\* prefix before its one "-{jobid}": (.+) needs a character
output_files_job_name(prefix) ==
  IF prefix = <<>> THEN None ELSE StrV(prefix)

(***************************************************************************)
(* output_data: one iteration of its loop.                                 *)
(***************************************************************************)
\* parameter_names.append(param), without the test of membership
AddParameterNameAlways(names, param) == Append(names, param)

\* if param not in parameter_names: parameter_names.append(param)
AddParameterName(names, param) ==
  IF param \in ToSet(names) THEN names ELSE Append(names, param)

\* value_names.append(value_name) only for a name that is in neither list
AddValueNameUnlessParameter(p_names, v_names, value_name) ==
  IF value_name \in ToSet(v_names) \cup ToSet(p_names) THEN v_names
  ELSE Append(v_names, value_name)

\* if value_name not in value_names: value_names.append(value_name)
AddValueName(p_names, v_names, value_name) ==
  IF value_name \in ToSet(v_names) THEN v_names
  ELSE Append(v_names, value_name)

RECURSIVE AddParameterNames(_, _)
\* for param in data.params.keys()
AddParameterNames(names, keys) ==
  IF keys = <<>> THEN names
  ELSE AddParameterNames(AddParameterName(names, keys[1]), Tail(keys))

RECURSIVE AddValueNames(_, _, _)
\* for value_name in values.keys()
AddValueNames(p_names, v_names, keys) ==
  IF keys = <<>> THEN v_names
  ELSE AddValueNames(p_names, AddValueName(p_names, v_names, keys[1]),
                     Tail(keys))

RECURSIVE ValuesLoop(_, _, _, _, _)
\* for values in values_list, from st = [value_names, records, stderr]
ValuesLoop(values_list, params, p_names, st, file_no) ==
  IF values_list = <<>> THEN st
  ELSE ValuesLoop(Tail(values_list), params, p_names,
         [value_names |-> AddValueNames(p_names, st.value_names,
                                        Keys(values_list[1])),
          records |-> Append(st.records,
                             DictUpdate(params, values_list[1])),
          stderr |-> IF ToSet(Keys(params)) \cap ToSet(Keys(values_list[1]))
                          # {}
                     THEN Append(st.stderr, <<"overlap", file_no>>)
                     ELSE st.stderr],
         file_no)

\* parser(data.data_lines)
Parse(p, data_lines) ==
  IF p = "last_value" THEN last_value(data_lines) ELSE all_values(data_lines)

\* the command output_data keeps after a file whose command is new_command
KeepCommand(old_command, new_command) == new_command

\* what one iteration leaves: the locals, and end: "" (go on), "None"
\* (return None) or the exception raised
Locals(end, cmd, p_names, st) ==
  [end |-> end, command |-> cmd, parameter_names |-> p_names,
   value_names |-> st.value_names, records |-> st.records,
   stderr |-> st.stderr]

\* the iteration from "for param in data.params.keys()" on: p_names is
\* parameter_names after that loop
output_data_values(loc, data, values_list, p_names, file_no) ==
  Locals("", KeepCommand(loc.command, data.command), p_names,
    ValuesLoop(values_list, data.params, p_names,
      [value_names |-> loc.value_names,
       records |-> loc.records,
       stderr |->
         (IF loc.command # None /\ data.command # loc.command
          THEN Append(loc.stderr, <<"mismatch", file_no>>)
          ELSE loc.stderr)
           \o (IF values_list = <<>>
               THEN <<<<"novalues", file_no>>>> ELSE <<>>)],
      file_no))

\* the iteration from "values_list = parser(data.data_lines)" on
output_data_parsed(loc, data, values_list, file_no) ==
  output_data_values(loc, data, values_list,
    AddParameterNames(loc.parameter_names, Keys(data.params)), file_no)

\* the iteration after "data = file_data(file_path)"
output_data_file(loc, data, p, file_no) ==
  IF data.kind = "raise" THEN [loc EXCEPT !.end = "IndexError"]
  ELSE IF data.kind = "none" THEN [loc EXCEPT !.end = "None"]
  ELSE output_data_parsed(loc, data, Parse(p, data.data_lines), file_no)

\* The body of the loop for the file of lines raw_lines, from the locals
\* loc = [end, command, parameter_names, value_names, records, stderr]
output_data_step(loc, raw_lines, p, file_no) ==
  output_data_file(loc, file_data(raw_lines), p, file_no)

(***************************************************************************)
(* write_data.                                                             *)
(***************************************************************************)
\* columns = data.parameter_names; columns += [x for x in data.value_names
\* if x not in columns]: the list columns names after the +=
Columns(p_names, v_names) ==
  p_names \o SelectSeq(v_names, LAMBDA x : x \notin ToSet(p_names))

\* data.parameter_names after the +=: columns names the same list
ParameterNamesAfterWrite(p_names, v_names) == Columns(p_names, v_names)

\* record.get(column, "N/A")
Entry(record, column) ==
  IF HasKey(record, column) THEN Get(record, column)
  ELSE StrV(<<"N", "/", "A">>)

\* the characters of the digits 0 .. 9
DigitChars == <<"0", "1", "2", "3", "4", "5", "6", "7", "8", "9">>

RECURSIVE NatText(_)
\* str(n) of an int n >= 0
NatText(n) ==
  IF n < 10 THEN <<DigitChars[n + 1]>>
  ELSE NatText(n \div 10) \o <<DigitChars[(n % 10) + 1]>>

\* str(n) of an int
IntText(n) == IF n < 0 THEN <<"-">> \o NatText(-n) ELSE NatText(n)

RECURSIVE Repeat(_, _)
\* c * n
Repeat(c, n) == IF n <= 0 THEN <<>> ELSE <<c>> \o Repeat(c, n - 1)

\* the padding of a number to the width w: on the left, and no cut
RJust(s, w) == Repeat(" ", w - Len(s)) \o s

\* the exponent of the presentation with an exponent: a sign and at least
\* two digits
ExpText(x) ==
  IF x < 0 THEN <<"-">> \o (IF -x < 10 THEN <<"0">> ELSE <<>>) \o NatText(-x)
  ELSE <<"+">> \o (IF x < 10 THEN <<"0">> ELSE <<>>) \o NatText(x)

\* the digits ds (of the number ds * 10^e, d = Len(ds), ds without zeros at
\* its end) in the presentation of format() for a float with precision p
\* and no type: x = d + e - 1 is the exponent of the first digit; with
\* x < -4 or x >= p - 1 the presentation has an exponent, else it is a
\* decimal with at least one digit after the point. The numbers of the
\* files of the model have no more than four digits, and p is at least
\* four, so no digit is rounded away.
FloatDigits_at(ds, d, e, p, x) ==
  IF x < -4 \/ x >= p - 1
  THEN <<ds[1]>> \o (IF d > 1 THEN <<".">> \o Tail(ds) ELSE <<>>)
         \o <<"e">> \o ExpText(x)
  ELSE IF e >= 0 THEN ds \o Repeat("0", e) \o <<".", "0">>
  ELSE IF x >= 0 THEN SubSeq(ds, 1, d + e) \o <<".">> \o SubSeq(ds, d + e + 1, d)
  ELSE <<"0", ".">> \o Repeat("0", -(d + e)) \o ds

FloatDigits(ds, e, p) == FloatDigits_at(ds, Len(ds), e, p, Len(ds) + e - 1)

\* "{:.p}".format(f) of the float f = m * 10^e
FloatText(m, e, p) ==
  IF m = 0 THEN <<"0", ".", "0">>
  ELSE IF m < 0 THEN <<"-">> \o FloatDigits(NatText(-m), e, p)
  ELSE FloatDigits(NatText(m), e, p)

\* format_str(s): str_format = "{:w.w}", cut to w and padded on the right
format_str(s, max_width) ==
  IF Len(s) >= max_width THEN SubSeq(s, 1, max_width)
  ELSE s \o Repeat(" ", max_width - Len(s))

\* format_float(f): float_format = "{:w.(w-3)}", of the float m * 10^e
format_float(m, e, max_width) ==
  RJust(FloatText(m, e, max_width - 3), max_width)

\* format_int(i): int_format = "{:w}", or format_float(float(i)) for an
\* int of more than w characters
format_int(n, max_width) ==
  IF Len(IntText(n)) <= max_width THEN RJust(IntText(n), max_width)
  ELSE format_float(DecNorm(n, 0)[1], DecNorm(n, 0)[2], max_width)

\* formatted, for an entry: by isinstance(entry, int), isinstance(entry,
\* float), else as a str
Formatted(entry, max_width) ==
  IF entry.t = "int" THEN format_int(entry.v[1], max_width)
  ELSE IF entry.t = "float" THEN format_float(entry.v[1], entry.v[2], max_width)
  ELSE format_str(entry.v, max_width)

RECURSIVE Join(_)
\* " ".join(words)
Join(words) ==
  IF words = <<>> THEN <<>>
  ELSE IF Len(words) = 1 THEN words[1]
  ELSE words[1] \o <<" ">> \o Join(Tail(words))

RECURSIVE LongestLen(_)
\* max(len(c) for c in columns)
LongestLen(columns) ==
  IF columns = <<>> THEN 0
  ELSE Max(Len(columns[1]), LongestLen(Tail(columns)))

\* max_width = max(max_width, 7)
MaxWidth(columns) == Max(LongestLen(columns), 7)

RECURSIVE ColumnTitles(_, _)
\* format_str(c) for c in columns
ColumnTitles(columns, max_width) ==
  IF columns = <<>> THEN <<>>
  ELSE <<format_str(columns[1], max_width)>>
         \o ColumnTitles(Tail(columns), max_width)

RECURSIVE Row(_, _, _)
\* entries: the formatted entries of a record, for each column
Row(record, columns, max_width) ==
  IF columns = <<>> THEN <<>>
  ELSE <<Formatted(Entry(record, columns[1]), max_width)>>
         \o Row(record, Tail(columns), max_width)

RECURSIVE Rows(_, _, _)
\* the line printed for each record
Rows(recs, columns, max_width) ==
  IF recs = <<>> THEN <<>>
  ELSE <<Join(Row(recs[1], columns, max_width))>>
         \o Rows(Tail(recs), columns, max_width)

\* print("#", data.command): str(None) is "None"
CommandLine(cmd) ==
  <<"#", " ">> \o (IF cmd = None THEN <<"N", "o", "n", "e">> ELSE cmd.v)

\* the lines write_data prints with the width max_width
write_data_lines(cmd, columns, recs, max_width) ==
  <<CommandLine(cmd), Join(ColumnTitles(columns, max_width))>>
    \o Rows(recs, columns, max_width)

\* the prints of write_data, after sorted() returned srt: nothing when it
\* raised, else the line of the command, the line of the columns, and the
\* line of each record
write_data_sorted(cmd, columns, srt) ==
  IF srt.exc # "" THEN [exc |-> srt.exc, text |-> <<>>]
  ELSE [exc |-> "",
        text |-> write_data_lines(cmd, columns, srt.records,
                                  MaxWidth(columns))]

write_data_columns(cmd, columns, recs) ==
  write_data_sorted(cmd, columns, sorted_records(recs, columns))

\* write_data(data, outfile): the exception it raises ("" when none) and
\* the lines it prints to outfile
write_data(cmd, p_names, v_names, recs) ==
  write_data_columns(cmd, Columns(p_names, v_names), recs)

(***************************************************************************)
(* The run of a script: main, and the call of main that ends the process.  *)
(***************************************************************************)
Init ==
  /\ pc = "args"
  /\ parser \in {"last_value", "all_values"}
  /\ datadir \in DataDirs
  /\ files = <<>>
  /\ job_name = None
  /\ i = 0
  /\ command = None
  /\ parameter_names = <<>>
  /\ value_names = <<>>
  /\ records = <<>>
  /\ data_path = ""
  /\ ret = ""
  /\ exc = ""
  /\ exit_status = -1
  /\ stderr = <<>>
  /\ stdout = <<>>
  /\ in_lines = <<>>
  /\ u_pc = "off"
  /\ u_out = <<>>
  /\ NoJob

\* return -1, after the diagnostic msg
ReturnError(msg) ==
  /\ ret' = "-1"
  /\ pc' = "returned"
  /\ stderr' = Append(stderr, <<msg, 0>>)

\* main: the checks of argv (its length, and int(jobid))
CheckArgs ==
  /\ pc = "args"
  /\ \E argc_ok, jobid_ok \in BOOLEAN :
       IF argc_ok /\ jobid_ok
       THEN pc' = "dirs" /\ UNCHANGED <<ret, stderr>>
       ELSE ReturnError("usage")
  /\ UNCHANGED <<parser, datadir, files, job_name, dataset, data_path, exc,
                 exit_status, stdout, unit, job>>

\* main: outdir.is_dir() and datadir.is_dir()
CheckDirs ==
  /\ pc = "dirs"
  /\ \E outdir_is_dir \in BOOLEAN :
       IF outdir_is_dir /\ datadir.is_dir
       THEN pc' = "files" /\ UNCHANGED <<ret, stderr>>
       ELSE ReturnError("usage")
  /\ UNCHANGED <<parser, datadir, files, job_name, dataset, data_path, exc,
                 exit_status, stdout, unit, job>>

\* main: output_files(outdir, jobid), and the checks of what it returns
OutputFiles ==
  /\ pc = "files"
  /\ \E fs \in FileLists, prefix \in NamePrefixes :
       \E name \in {IF fs = <<>> THEN None
                    ELSE output_files_job_name(prefix)} :
          /\ files' = fs
          /\ job_name' = name
          /\ IF fs = <<>> THEN ReturnError("No files found")
             ELSE IF name = None
             THEN ReturnError("Failed to parse job name")
             ELSE pc' = "output_data" /\ UNCHANGED <<ret, stderr>>
  /\ UNCHANGED <<parser, datadir, dataset, data_path, exc, exit_status,
                 stdout, unit, job>>

\* output_data: the loop body, for the next file
ProcessFile ==
  /\ pc = "output_data"
  /\ i < Len(files)
  /\ \E new \in {output_data_step(
                   [end |-> "", command |-> command,
                    parameter_names |-> parameter_names,
                    value_names |-> value_names, records |-> records,
                    stderr |-> stderr],
                   files[i + 1], parser, i + 1)} :
        /\ command' = new.command
        /\ parameter_names' = new.parameter_names
        /\ value_names' = new.value_names
        /\ records' = new.records
        /\ stderr' = new.stderr
        /\ IF new.end = ""
           THEN i' = i + 1 /\ UNCHANGED <<pc, ret, exc>>
           ELSE IF new.end = "None"
           \* output_data returns None, and main returns -1
           THEN i' = i /\ pc' = "returned" /\ ret' = "-1" /\ exc' = exc
           ELSE i' = i /\ pc' = "raised" /\ exc' = new.end /\ ret' = ret
  /\ UNCHANGED <<parser, datadir, files, job_name, data_path, exit_status,
                 stdout, unit, job>>

\* output_data returns the OutputData (which is true, as a tuple of four),
\* and main chooses the path of the data file
ChoosePath ==
  /\ pc = "output_data"
  /\ i = Len(files)
  /\ IF datadir.files["job_name"] # NoFile
     THEN /\ data_path' = "job_name-jobid"
          /\ stdout' = Append(stdout, "Default data file exists")
     ELSE /\ data_path' = "job_name"
          /\ stdout' = stdout
  /\ pc' = "write"
  /\ UNCHANGED <<parser, datadir, files, job_name, dataset, ret, exc,
                 exit_status, stderr, unit, job>>

\* main: with data_path.open("w") as datafile: write_data(data, datafile)
WriteData ==
  /\ pc = "write"
  /\ \E w \in {write_data(command, parameter_names, value_names, records)} :
        /\ datadir' = [datadir EXCEPT !.files[data_path] = Written(w.text)]
        /\ parameter_names' =
             ParameterNamesAfterWrite(parameter_names, value_names)
        /\ exc' = w.exc
        /\ IF w.exc = ""
           THEN pc' = "returned" /\ ret' = "None"
           ELSE pc' = "raised" /\ ret' = ret
  /\ UNCHANGED <<parser, files, job_name, i, command, value_names, records,
                 data_path, exit_status, stderr, stdout, unit, job>>

\* the exit status after "main(sys.argv)", the script's last statement:
\* what main returns is dropped, and an exception that leaves main ends
\* the process with status 1
ExitStatus(returned, raised) == IF raised # "" THEN 1 ELSE 0

\* if __name__ == "__main__": main(sys.argv)
Exit ==
  /\ pc \in {"returned", "raised"}
  /\ exit_status' = ExitStatus(ret, exc)
  /\ pc' = "exited"
  /\ UNCHANGED <<parser, datadir, files, job_name, dataset, data_path, ret,
                 exc, stderr, stdout, unit, job>>

Next ==
  \/ CheckArgs
  \/ CheckDirs
  \/ OutputFiles
  \/ ProcessFile
  \/ ChoosePath
  \/ WriteData
  \/ Exit

Spec == Init /\ [][Next]_vars

(***************************************************************************)
(* file_data, last_value and all_values, each applied on its own to the    *)
(* lines of one file.                                                      *)
(***************************************************************************)
Seqs(S, n) == UNION {[1..k -> S] : k \in 0..n}

\* lines of a file: a command, an empty command, a parameter, a blank
\* line, a word, a labelled value, a zero, a value with its label
SampleLines ==
  {<<"#", " ", "c">>,
   <<"#">>,
   <<"#", "-", "-", "a", "=", "1">>,
   <<>>,
   <<"x">>,
   <<"b", " ", "2">>,
   <<"0">>,
   <<"a", "=", "1">>}

\* the characters of parameter tokens
TokenChars == {"-", "=", "a", "1", " "}

\* words of a data line: a name, a number, a name with its value, the
\* name with another value, a word with two "=", a name with no value
SampleWords ==
  {<<"x">>, <<"2">>, <<"x", "=", "1">>, <<"x", "=", "2">>,
   <<"x", "=", "=", "1">>, <<"y", "=">>}

\* the characters of the settings of a parameter: quotes, a digit, a letter
ValueChars == {"'", "\"", "1", "x", "."}

\* the characters of numbers
NumChars == {"0", "1", ".", "-", "e", "x"}

\* the files of SampleLines; the files of a command line and a second
\* header line of TokenChars; the files of one data line of NumChars; the
\* files of a command line and a parameter a with a setting of ValueChars;
\* the files of one data line of SampleWords
UnitInputs ==
  Seqs(SampleLines, MaxLines)
    \cup {<<<<"#", " ", "c">>, <<"#">> \o t>> : t \in Seqs(TokenChars, MaxTokenLen)}
    \cup {<<t>> : t \in Seqs(NumChars, MaxNumLen)}
    \cup {<<<<"#", " ", "c">>, <<"#", "-", "-", "a", "=">> \o t>> :
            t \in Seqs(ValueChars, MaxValueLen)}
    \cup {<<Join(ws)>> : ws \in Seqs(SampleWords, MaxWords)}

UnitInit ==
  /\ pc = "off"
  /\ parser = "none"
  /\ datadir = [is_dir |-> FALSE, files |-> [p \in Paths |-> NoFile]]
  /\ files = <<>>
  /\ job_name = None
  /\ i = 0
  /\ command = None
  /\ parameter_names = <<>>
  /\ value_names = <<>>
  /\ records = <<>>
  /\ data_path = ""
  /\ ret = ""
  /\ exc = ""
  /\ exit_status = -1
  /\ stderr = <<>>
  /\ stdout = <<>>
  /\ in_lines \in UnitInputs
  /\ u_pc = "input"
  /\ u_out = <<>>
  /\ NoJob

run == <<pc, parser, datadir, files, job_name, dataset, data_path, ret, exc,
         exit_status, stderr, stdout>>

ApplyFileData ==
  /\ u_pc = "input"
  /\ u_out' = file_data(in_lines)
  /\ u_pc' = "file_data"
  /\ UNCHANGED <<run, in_lines, job>>

ApplyLastValue ==
  /\ u_pc = "input"
  /\ u_out' = last_value(in_lines)
  /\ u_pc' = "last_value"
  /\ UNCHANGED <<run, in_lines, job>>

ApplyAllValues ==
  /\ u_pc = "input"
  /\ u_out' = all_values(in_lines)
  /\ u_pc' = "all_values"
  /\ UNCHANGED <<run, in_lines, job>>

UnitNext == ApplyFileData \/ ApplyLastValue \/ ApplyAllValues

SpecParsers == UnitInit /\ [][UnitNext]_vars

(***************************************************************************)
(* make_parameter_array_job.py: the numbers main puts in the job script,   *)
(* and the run of the script: its array tasks, one after the other (they   *)
(* share no variable), each with the for loop over run.                    *)
(***************************************************************************)
RECURSIVE total_runs_of(_)
\* total_runs = math.prod(len(pa.values) for pa in param_arrays)
total_runs_of(lengths) ==
  IF lengths = <<>> THEN 1 ELSE lengths[1] * total_runs_of(Tail(lengths))

\* total_runs // runs_per_job: the division that rounds down
num_jobs_floor(total, per_job) == total \div per_job

\* num_jobs = (total_runs + (runs_per_job - 1)) // runs_per_job
num_jobs_of(total, per_job) == (total + (per_job - 1)) \div per_job

\* the run_index line of script_loop: by the task when runs_per_job <
\* total_runs, else the variable run
run_index_of(per_job, total, task, run_var) ==
  IF per_job < total THEN per_job * (task - 1) + run_var ELSE run_var

RECURSIVE script_param_indexing(_, _)
\* idx=${run_index}, then for each array from the last to the first:
\* param_index[i]=$((idx % l)) and ((idx /= l)); the param_index it leaves
script_param_indexing(lengths, idx) ==
  IF lengths = <<>> THEN <<>>
  ELSE script_param_indexing(SubSeq(lengths, 1, Len(lengths) - 1),
                             idx \div lengths[Len(lengths)])
         \o <<idx % lengths[Len(lengths)]>>

total_runs == total_runs_of(array_lengths)

num_jobs == num_jobs_of(total_runs, runs_per_job)

run_index == run_index_of(runs_per_job, total_runs, task_id, loop_run)

\* main writes the script for the parameter arrays and runs_per_job, and
\* the first task of the job starts
JobInit ==
  /\ pc = "off"
  /\ parser = "none"
  /\ datadir = [is_dir |-> FALSE, files |-> [p \in Paths |-> NoFile]]
  /\ files = <<>>
  /\ job_name = None
  /\ i = 0
  /\ command = None
  /\ parameter_names = <<>>
  /\ value_names = <<>>
  /\ records = <<>>
  /\ data_path = ""
  /\ ret = ""
  /\ exc = ""
  /\ exit_status = -1
  /\ stderr = <<>>
  /\ stdout = <<>>
  /\ in_lines = <<>>
  /\ u_pc = "off"
  /\ u_out = <<>>
  /\ array_lengths \in Seqs(1..MaxArrayLen, MaxParams)
  /\ runs_per_job \in 1..MaxRunsPerJob
  /\ j_pc = "loop"
  /\ task_id = 1
  /\ loop_run = 0
  /\ executed = {}

\* the task is over: the next task of the array, #SBATCH --array=1-num_jobs
\* (one job when num_jobs is 1)
EndTask ==
  IF task_id < num_jobs
  THEN task_id' = task_id + 1 /\ loop_run' = 0 /\ j_pc' = j_pc
  ELSE j_pc' = "done" /\ UNCHANGED <<task_id, loop_run>>

\* an iteration of the loop that runs the command, with the param_index
\* of its run_index
RunCommand ==
  /\ j_pc = "loop"
  /\ loop_run < runs_per_job
  /\ run_index < total_runs
  /\ executed' = executed \cup
       {[task |-> task_id, run |-> loop_run, run_index |-> run_index,
         param_index |-> script_param_indexing(array_lengths, run_index)]}
  /\ loop_run' = loop_run + 1
  /\ UNCHANGED <<run, unit, array_lengths, runs_per_job, j_pc, task_id>>

\* if [[ "${run_index}" -ge total_runs ]]; then break
Break ==
  /\ j_pc = "loop"
  /\ loop_run < runs_per_job
  /\ run_index >= total_runs
  /\ EndTask
  /\ UNCHANGED <<run, unit, array_lengths, runs_per_job, executed>>

\* the for loop ends: run < runs_per_job is false
LoopDone ==
  /\ j_pc = "loop"
  /\ loop_run >= runs_per_job
  /\ EndTask
  /\ UNCHANGED <<run, unit, array_lengths, runs_per_job, executed>>

JobNext == RunCommand \/ Break \/ LoopDone

SpecArrayJob == JobInit /\ [][JobNext]_vars

(***************************************************************************)
(* Properties of the run of a script.                                      *)
(***************************************************************************)
\* C1: the data file is placed without overwriting: a step of the run
\* never changes a file of datadir that exists before the step, also when
\* both the default path and the fallback path exist.
C1_NeverOverwrites ==
  [][\A p \in Paths :
       datadir.files[p] # NoFile => datadir'.files[p] = datadir.files[p]]_vars

\* C2: a run in which main reports a failure (usage error, missing
\* directory, no files, no job name, a file that does not parse) ends with
\* a non-zero exit status and with no data file written.
C2_FailureExitsNonZero ==
  (pc = "exited" /\ ret = "-1")
    => /\ exit_status # 0
       /\ \A p \in Paths : datadir.files[p] \in {NoFile, OldFile}

RECURSIVE FirstCommand(_)
\* the command of the first of the files fs that has one
FirstCommand(fs) ==
  IF fs = <<>> THEN None
  ELSE IF file_data(fs[1]).command # None THEN file_data(fs[1]).command
  ELSE FirstCommand(Tail(fs))

\* C3: after each file of the aggregation loop, the command of the dataset
\* is the command of the first processed file that has one: a later file
\* with another command, or with none, does not change it.
C3_FirstCommandKept ==
  (pc \in {"output_data", "write"})
    => command = FirstCommand(SubSeq(files, 1, i))

\* C4 as stated: after every step of the aggregation loop no name is in
\* both parameter_names and value_names.
C4_NameSetsDisjoint ==
  pc = "output_data"
    => ToSet(parameter_names) \cap ToSet(value_names) = {}

\* the keys of the DataPoints that the parser p yields for the files fs
DataPointKeys(fs, p) ==
  UNION {UNION {ToSet(Keys(Parse(p, file_data(fs[k]).data_lines)[n])) :
                  n \in 1..Len(Parse(p, file_data(fs[k]).data_lines))} :
           k \in 1..Len(fs)}

\* the names of the parameters of the headers of the files fs
ParameterKeys(fs) ==
  UNION {ToSet(Keys(file_data(fs[k]).params)) : k \in 1..Len(fs)}

\* C4, amended: after every step of the aggregation loop each list holds
\* no name twice, parameter_names holds exactly the parameters of the
\* headers read so far and value_names exactly the keys of the DataPoints
\* read so far, also the keys that are parameter names; the column list of
\* the writer holds every name once.
C4_EachListHoldsItsKind ==
  pc = "output_data"
    => /\ NoDup(parameter_names) /\ NoDup(value_names)
       /\ ToSet(parameter_names) = ParameterKeys(SubSeq(files, 1, i))
       /\ ToSet(value_names) = DataPointKeys(SubSeq(files, 1, i), parser)
       /\ NoDup(Columns(parameter_names, value_names))
       /\ ToSet(Columns(parameter_names, value_names))
            = ToSet(parameter_names) \cup ToSet(value_names)

\* a name is in both lists after a file of the loop
C4_NameInBothLists ==
  /\ pc = "output_data"
  /\ i > 0
  /\ ToSet(parameter_names) \cap ToSet(value_names) # {}

\* C5: parameter_names and value_names only grow: a step leaves each list
\* a prefix of its new value, and no list ever holds a name twice, so a
\* name seen again (A, B, then A) is not appended again.
C5_AppendOnlyFirstSeen ==
  [][/\ IsPrefix(parameter_names, parameter_names')
     /\ IsPrefix(value_names, value_names')
     /\ NoDup(parameter_names') /\ NoDup(value_names')]_vars

\* the second file names again the first parameter of the first file,
\* after the first file named another one: the list is still A, B
C5_SeenAgain ==
  /\ pc = "output_data"
  /\ i = 2
  /\ Len(Keys(file_data(files[1]).params)) = 2
  /\ parameter_names = Keys(file_data(files[1]).params)
  /\ parameter_names[1] \in ToSet(Keys(file_data(files[2]).params))
  /\ Len(value_names) = 1
  /\ Len(records) = 2

\* a record has no value for a column of the table
MissingEntry(recs, columns) ==
  \E k \in DOMAIN recs : \E c \in ToSet(columns) : ~HasKey(recs[k], c)

\* a column holds a text in one record and a number in another
MixedColumn(recs) ==
  \E j, k \in DOMAIN recs :
    \E c \in ToSet(Keys(recs[j])) \cap ToSet(Keys(recs[k])) :
      IsNumber(Get(recs[j], c)) # IsNumber(Get(recs[k], c))

\* C6: warnings never become failures: in a run whose files all pass
\* file_data, whose records have a value of one kind for every column, and
\* whose only anomalies are warnings (command mismatch, no values, overlap,
\* duplicate name), nothing is raised and write_data completes, also when
\* no file yields a DataPoint or a column.
C6_WarningsNeverFail ==
  (pc = "raised" /\ exc # "IndexError")
    => \/ MissingEntry(records, Columns(parameter_names, value_names))
       \/ MixedColumn(records)

\* C7: write_data does not change the dataset it is given: command,
\* parameter_names, value_names and records are the same after the call.
C7_WriterLeavesDataset ==
  [][pc = "write"
       => <<command, parameter_names, value_names, records>>'
            = <<command, parameter_names, value_names, records>>]_vars

\* the records in the order perm of their positions
Permuted(recs, perm) == [k \in DOMAIN recs |-> recs[perm[k]]]

\* the records are in ascending order of their keys for the columns
Ascending(recs, columns) ==
  \A k \in 1..(Len(recs) - 1) :
    ~KeyLess(KeyOf(recs[k + 1], columns), KeyOf(recs[k], columns))

\* C11: the text write_data prints for a dataset is the same for every
\* order of its records, also for records that are equal in every column
\* but for an int and a float of the same value, and when it prints, the
\* rows are in ascending order of the full column tuple.
C11_WriterDeterminism ==
  pc = "write"
    => /\ \A perm \in Permutations(DOMAIN records) :
            write_data(command, parameter_names, value_names,
                       Permuted(records, perm))
              = write_data(command, parameter_names, value_names, records)
       /\ sorted_records(records,
                         Columns(parameter_names, value_names)).exc = ""
            => Ascending(sorted_records(records,
                           Columns(parameter_names, value_names)).records,
                         Columns(parameter_names, value_names))

\* the cell of the column at position c in a line of cells of width w
Cell(line, c, w) == SubSeq(line, (c - 1) * (w + 1) + 1, (c - 1) * (w + 1) + w)

\* the sentinel, at the width w
NotAvailable(w) == <<"N", "/", "A">> \o Repeat(" ", w - 3)

\* the text has a line for each record, and in each column at least as
\* many lines that show the sentinel as records that lack the column
ShowsNotAvailable(text, recs, columns, w) ==
  /\ Len(text) = 2 + Len(recs)
  /\ \A c \in DOMAIN columns :
       Cardinality({n \in 3..Len(text) : Cell(text[n], c, w) = NotAvailable(w)})
         >= Cardinality({k \in DOMAIN recs : ~HasKey(recs[k], columns[c])})

\* C13: for a dataset in which a record has no value for a column,
\* write_data completes, and the line of that record shows "N/A", at the
\* width of the cells, in that column.
C13_MissingShownAsNA ==
  (/\ pc = "write"
   /\ MissingEntry(records, Columns(parameter_names, value_names)))
    => /\ write_data(command, parameter_names, value_names, records).exc = ""
       /\ ShowsNotAvailable(
            write_data(command, parameter_names, value_names, records).text,
            records, Columns(parameter_names, value_names),
            MaxWidth(Columns(parameter_names, value_names)))

(***************************************************************************)
(* Properties of file_data, last_value and all_values.                     *)
(***************************************************************************)
\* a line that starts with the comment marker
CommentMarked(line) == line # <<>> /\ line[1] = "#"

RECURSIVE HeaderLen(_)
\* the number of comment-marked lines that begin the file
HeaderLen(lines) ==
  IF lines = <<>> \/ ~CommentMarked(lines[1]) THEN 0
  ELSE 1 + HeaderLen(Tail(lines))

\* the lines after the header that are not comment-marked
BodyLines(lines) ==
  SelectSeq(SubSeq(lines, HeaderLen(lines) + 1, Len(lines)),
            LAMBDA l : ~CommentMarked(l))

\* C8: file_data is total: for every file, also one with blank lines, it
\* returns a record or the parse failure and raises nothing, and the
\* data_lines of the record are the lines after the header that are not
\* comment-marked, in their order.
C8_FileDataTotal ==
  u_pc = "file_data"
    => /\ u_out.kind \in {"ok", "none"}
       /\ u_out.kind = "ok"
            => u_out.data_lines = BodyLines(StripAll(in_lines))

\* the position of the first "=" of a word, 0 when it has none
FirstEq(w) ==
  IF \E k \in DOMAIN w : w[k] = "="
  THEN CHOOSE k \in DOMAIN w :
         w[k] = "=" /\ \A j \in 1..(k - 1) : w[j] # "="
  ELSE 0

\* a word --NAME=VALUE whose NAME or VALUE is empty
MalformedToken(w) ==
  /\ Len(w) >= 3 /\ w[1] = "-" /\ w[2] = "-"
  /\ FirstEq(w) # 0
  /\ (FirstEq(w) = 3 \/ FirstEq(w) = Len(w))

\* a header line after the command line holds a malformed word
HasMalformedToken(lines) ==
  \E k \in 2..HeaderLen(lines) :
    \E w \in ToSet(Split(Tail(lines[k]))) : MalformedToken(w)

\* C9: a header token with an empty name or an empty value (--=5, --lr=)
\* makes file_data return the parse failure.
C9_MalformedTokenFails ==
  (u_pc = "file_data" /\ HasMalformedToken(StripAll(in_lines)))
    => u_out.kind = "none"

\* the lines, stripped, that are not blank, not comment-marked, and hold
\* a match of float_regex
LinesWithMatch(lines) ==
  SelectSeq(StripAll(lines),
            LAMBDA l : /\ l # <<>> /\ ~CommentMarked(l)
                       /\ float_regex_findall(l, 1) # <<>>)

\* the value of the last match of a line
LastOf(line) ==
  FloatOf(float_regex_findall(line, 1)[Len(float_regex_findall(line, 1))])

\* C10: last_value returns the empty list exactly when no line that is
\* not blank and not comment-marked holds a match; else it returns one
\* DataPoint, VALUE_NAME with the last match of the last such line, also
\* when that match is 0 or 0.0.
C10_LastValueOfLastMatch ==
  u_pc = "last_value"
    => u_out = IF LinesWithMatch(in_lines) = <<>> THEN <<>>
               ELSE << <<<<VALUE_NAME,
                            LastOf(LinesWithMatch(in_lines)[
                                     Len(LinesWithMatch(in_lines))])>>>> >>

RECURSIVE HeaderTokens(_, _)
\* the <<NAME, VALUE>> tokens of the header lines from line k on
HeaderTokens(lines, k) ==
  IF k > HeaderLen(lines) THEN <<>>
  ELSE param_regex_findall(lines[k], 1) \o HeaderTokens(lines, k + 1)

\* the params hold, under the NAME of each token of toks that is the last
\* of its NAME, the value parse_value gives for its VALUE
StoredAsParsed(params, toks) ==
  \A j \in DOMAIN toks :
    (\A h \in (j + 1)..Len(toks) : toks[h][1] # toks[j][1])
      => /\ HasKey(params, toks[j][1])
         /\ Get(params, toks[j][1]) = parse_value(toks[j][2])

\* C12: for every token --NAME=VALUE of the header lines after the command
\* line, file_data stores under NAME the value parse_value(VALUE), also
\* for a quoted VALUE: the text between the quotes, as a str.
C12_HeaderValuesParsed ==
  (/\ u_pc = "file_data" /\ u_out.kind = "ok"
   /\ HeaderLen(StripAll(in_lines)) >= 1
   /\ Strip(Tail(StripAll(in_lines)[1])) # <<>>)
    => StoredAsParsed(u_out.params, HeaderTokens(StripAll(in_lines), 2))

\* C14: in a file that begins with a comment-marked line, the command is
\* what follows the marker in the first line, stripped, also when that is
\* empty, and the lines of the header after the first are read for
\* parameters only: the params have the names of their tokens.
C14_HeaderRolesByPosition ==
  (/\ u_pc = "file_data" /\ u_out.kind = "ok"
   /\ HeaderLen(StripAll(in_lines)) >= 1)
    => /\ u_out.command = StrV(Strip(Tail(StripAll(in_lines)[1])))
       /\ ToSet(Keys(u_out.params))
            = {HeaderTokens(StripAll(in_lines), 2)[j][1] :
                 j \in DOMAIN HeaderTokens(StripAll(in_lines), 2)}

\* the number of "=" in a word
NumEq(word) == Len(SelectSeq(word, LAMBDA c : c = "="))

RECURSIVE Pairs(_)
\* the <<NAME, VALUE>> pairs of the walk over the words of a line: a word
\* with one "=" is NAME=VALUE; a word with none is a NAME and the next word
\* its VALUE, and the walk ends when there is no next word; a word with
\* two or more "=" is skipped
Pairs(words) ==
  IF words = <<>> THEN <<>>
  ELSE IF NumEq(words[1]) = 0
  THEN IF Len(words) = 1 THEN <<>>
       ELSE <<<<words[1], words[2]>>>> \o Pairs(SubSeq(words, 3, Len(words)))
  ELSE IF NumEq(words[1]) = 1
  THEN <<<<SubSeq(words[1], 1, FirstEq(words[1]) - 1),
           SubSeq(words[1], FirstEq(words[1]) + 1, Len(words[1]))>>>>
         \o Pairs(Tail(words))
  ELSE Pairs(Tail(words))

\* the DataPoint of the pairs ps: each NAME with the parsed VALUE of its
\* last pair, as a set of <<NAME, value>>
PointOf(ps) ==
  {<<ps[j][1], parse_value(ps[j][2])>> :
     j \in {j \in DOMAIN ps : \A h \in (j + 1)..Len(ps) : ps[h][1] # ps[j][1]}}

RECURSIVE PointsOf(_)
\* the DataPoints of the lines, in their order: one for each line that is
\* not blank, not comment-marked, and has a pair
PointsOf(lines) ==
  IF lines = <<>> THEN <<>>
  ELSE (IF /\ lines[1] # <<>> /\ ~CommentMarked(lines[1])
           /\ Pairs(Split(lines[1])) # <<>>
        THEN <<PointOf(Pairs(Split(lines[1])))>> ELSE <<>>)
         \o PointsOf(Tail(lines))

\* C15: all_values returns, in the order of the lines, one DataPoint for
\* each line that is not blank, not comment-marked and yields a pair, and
\* nothing for the other lines; the pairs are those of the walk over the
\* words from left to right, and a NAME that a line repeats has the value
\* of its last pair.
C15_AllValuesWalk ==
  u_pc = "all_values"
    => /\ \A n \in DOMAIN u_out : NoDup(Keys(u_out[n]))
       /\ [n \in DOMAIN u_out |-> ToSet(u_out[n])]
            = PointsOf(StripAll(in_lines))

\* the line x=1 x=2 gave the one DataPoint {x: 2}
C15_RepeatedName ==
  /\ u_pc = "all_values"
  /\ in_lines = <<<<"x", "=", "1", " ", "x", "=", "2">>>>
  /\ u_out = << <<<<<<"x">>, IntV(2)>>>> >>

(***************************************************************************)
(* Properties of the job script of make_parameter_array_job.py.            *)
(***************************************************************************)
\* the tuples of indices, each in the range of its parameter array
ParamTuples(lengths) ==
  {t \in [1..Len(lengths) -> 0..(MaxArrayLen + 1)] :
     \A k \in 1..Len(lengths) : t[k] < lengths[k]}

\* C16: when every task of the job is over, the run indices executed are
\* 0 .. total_runs - 1, each in one iteration of one task, and their
\* param_index are all the tuples of indices in range, each for one run
\* index; before that, no run index is executed twice or out of range.
C16_EveryRunOnce ==
  /\ \A e, f \in executed : e.run_index = f.run_index => e = f
  /\ \A e \in executed : e.run_index \in 0..(total_runs - 1)
  /\ j_pc = "done"
       => /\ {e.run_index : e \in executed} = 0..(total_runs - 1)
          /\ {e.param_index : e \in executed} = ParamTuples(array_lengths)
          /\ \A e, f \in executed :
               e.param_index = f.param_index => e.run_index = f.run_index

\* a job of two parameter arrays whose last task breaks out of its loop:
\* 9 runs in 5 tasks of 2
C16_LastTaskBreaks ==
  /\ j_pc = "done"
  /\ array_lengths = <<3, 3>>
  /\ runs_per_job = 2
  /\ task_id = 5
  /\ loop_run = 1
  /\ Cardinality(executed) = 9

=============================================================================
